---- MODULE Spec2Model ----
(***************************************************************************)
(* Light client backend of go-confero (package les, LightConfero):         *)
(* construction (New), the node lifecycle (Start, Stop), the vflux         *)
(* capacity pre-negotiation (VfluxRequest, vfxVersion, prenegQuery) and    *)
(* the request distributor / retrieve manager that New wires over the      *)
(* shared peer set.                                                        *)
(***************************************************************************)
EXTENDS Integers, Sequences, FiniteSets, TLC

\* ------------------------------------------------------------------ bounds
\* process runs over the same chain database (restarts after exit or crash)
MaxRuns == 2
\* largest "les" vflux version a record advertises
MaxVersion == 1
\* largest capacity value in a capacity query reply
MaxCap == 1
\* remote peers that connect
NumPeers == 2
\* Requests retrieve issues
NumReqs == 1
\* concurrent assignments a peer serves (its advertised capacity)
PeerCap == 1
\* bloom request workers Start launches (wg.Add(bloomServiceThreads), 354)
bloomServiceThreads == 2
\* sections' worth of confirmed headers the chain grows to
MaxSections == 3

VARIABLES
    run,            \* number of the current process run, 1..MaxRuns
    pc,             \* where the backend of this run is in its lifecycle
    calls,          \* the calls New, Start and Stop have made in this run, in order
    marker,         \* unclean-shutdown markers stored in chainDb (durable)
    uncleanSeen,    \* MarkStartup of this run found a marker of an earlier run
    uncleanExits,   \* history: earlier runs that pushed a marker and never cleared it
    cfgDiscoveryV5, \* stack.Config().P2P.DiscoveryV5
    udpEnabled,     \* LightConfero.udpEnabled
    discV5,         \* p2pServer.DiscV5 # nil
    hasPreneg,      \* New handed prenegQuery to the server pool (non-nil QueryFunc)
    q,              \* the last VfluxRequest / prenegQuery call and what it returned
    wg,             \* LightConfero.wg: bloom workers registered and not yet returned
    genesisErr,     \* New's genesisErr: "ok" (nil), "compat", "err"; "none" before
    head,           \* confirmed headers of the light chain, in whole sections
    sections,       \* sections each chain indexer has committed (stored in chainDb)
    registry,       \* peer registry: the connected peers (serverPeerSet)
    nextId,         \* identifier of the next Request retrieve issues
    rstate,         \* state of each Request in the distributor
    assigned,       \* live in-flight assignments, each binding a Request to a Peer
    tried,          \* per Request, the peers excluded for it after a failure
    note,           \* what has happened to the oldest Request: "invalid" (a response
                    \* for it failed verification), "lost" (its peer was removed),
                    \* "late" (a response matching no live assignment was dropped)
    result,         \* per Request, what retrieve returned to its caller
    closed          \* peers.close / reqDist.close have run

lifeVars == <<run, pc, calls, marker, uncleanSeen, uncleanExits,
              cfgDiscoveryV5, udpEnabled, discV5, hasPreneg, q, wg, genesisErr>>

idxVars == <<head, sections>>

distVars == <<registry, nextId, rstate, assigned, tried, note, result, closed>>

\* ------------------------------------------------------------ New (86-202)
\* genesisErr of SetupGenesisBlockWithOverride: nil, *ConfigCompatError, other
GenesisOutcomes == {"ok", "compat", "err"}

NewPrefixDb == << "OpenDatabase(lightchaindata)" >>

NewPrefixGenesis == << "OpenDatabase(lightchaindata)", "OpenDatabase(les.client)",
                       "SetupGenesisBlockWithOverride" >>

\* New building the light chain before the ODR knows its indexers
NewWiringChainFirst ==
    << "newServerPeerSet", "NewMerger", "newRequestDistributor",
       "CreateConsensusEngine", "NewBloomIndexer", "NewShutdownTracker",
       "NewServerPool", "serverPool.AddMetrics", "newRetrieveManager",
       "newLesTxRelay", "NewLesOdr", "NewChtIndexer", "NewBloomTrieIndexer",
       "NewLightChain", "odr.SetIndexers" >>

\* New pushing the startup marker as soon as the shutdown tracker exists
NewWiringMarksEarly ==
    << "newServerPeerSet", "NewMerger", "newRequestDistributor",
       "CreateConsensusEngine", "NewBloomIndexer", "NewShutdownTracker",
       "shutdownTracker.MarkStartup",
       "NewServerPool", "serverPool.AddMetrics", "newRetrieveManager",
       "newLesTxRelay", "NewLesOdr", "NewChtIndexer", "NewBloomTrieIndexer",
       "odr.SetIndexers", "NewLightChain" >>

NewWiring == << "newServerPeerSet", "NewMerger", "newRequestDistributor",
                "CreateConsensusEngine", "NewBloomIndexer", "NewShutdownTracker",
                "NewServerPool", "serverPool.AddMetrics", "newRetrieveManager",
                "newLesTxRelay", "NewLesOdr", "NewChtIndexer", "NewBloomTrieIndexer",
                "odr.SetIndexers", "NewLightChain" >>

\* New starting the bloom-trie indexer on the chain by itself instead of
\* attaching it to the bloom indexer
NewIndexersTrieStarted ==
    << "NewTxPool", "setupOracle", "bloomTrieIndexer.Start",
       "chtIndexer.Start", "bloomIndexer.Start", "newPruner" >>

NewIndexers == << "NewTxPool", "setupOracle", "bloomIndexer.AddChildIndexer",
                  "chtIndexer.Start", "bloomIndexer.Start", "newPruner" >>

\* New rewinding the head without storing the new chain config
NewRewindHeadOnly == << "blockchain.SetHead" >>

NewRewind == << "blockchain.SetHead", "WriteChainConfig" >>

NewRegister == << "stack.RegisterAPIs", "stack.RegisterProtocols",
                  "stack.RegisterLifecycle", "shutdownTracker.MarkStartup" >>

\* The calls New makes, in order, and whether it returns a backend.
NewCalls(dbErr, lesDbErr, genesis, chainErr, ulc) ==
    IF dbErr THEN [ok |-> FALSE, calls |-> NewPrefixDb]
    ELSE IF lesDbErr THEN [ok |-> FALSE, calls |-> SubSeq(NewPrefixGenesis, 1, 2)]
    ELSE IF genesis = "err" THEN [ok |-> FALSE, calls |-> NewPrefixGenesis]
    ELSE IF chainErr THEN [ok |-> FALSE, calls |-> NewPrefixGenesis \o NewWiring]
    ELSE [ok |-> TRUE,
          calls |-> NewPrefixGenesis \o NewWiring \o NewIndexers
                    \o (IF genesis = "compat" THEN NewRewind ELSE << >>)
                    \o << "gasprice.NewOracle", "newClientHandler" >>
                    \o (IF ulc THEN << "blockchain.DisableCheckFreq" >> ELSE << >>)
                    \o << "NewNetAPI" >> \o NewRegister]

\* shutdownTracker.MarkStartup pushes a marker into chainDb (198-199)
MarkStartup(m) == m + 1

\* shutdownTracker.Stop removes the marker of this run again (378-379)
TrackerStop(m) == IF m > 0 THEN m - 1 ELSE 0

Has(s, c) == \E i \in 1..Len(s) : s[i] = c

NoQuery == [op |-> "none"]

New(dbErr, lesDbErr, genesis, chainErr, ulc) ==
    LET r == NewCalls(dbErr, lesDbErr, genesis, chainErr, ulc)
        marks == Has(r.calls, "shutdownTracker.MarkStartup")
    IN  /\ pc = "idle"
        /\ calls' = calls \o r.calls
        /\ pc' = IF r.ok THEN "constructed" ELSE "newFailed"
        /\ udpEnabled' = (r.ok /\ cfgDiscoveryV5)
        /\ hasPreneg' = (r.ok /\ cfgDiscoveryV5)
        /\ marker' = IF marks THEN MarkStartup(marker) ELSE marker
        /\ uncleanSeen' = (marks /\ marker > 0)
        /\ q' = NoQuery
        /\ genesisErr' = (IF dbErr \/ lesDbErr THEN "none" ELSE genesis)
        /\ UNCHANGED <<run, uncleanExits, cfgDiscoveryV5, discV5, wg>>
        /\ UNCHANGED distVars
        /\ UNCHANGED idxVars

\* The p2p server of the node comes up (Node.Start starts it before the
\* lifecycles); discovery v5 may or may not be initialized afterwards.
ServerStart(v5) ==
    /\ pc = "constructed"
    /\ ~Has(calls, "p2pServer.Start")
    /\ calls' = Append(calls, "p2pServer.Start")
    /\ discV5' = v5
    /\ q' = NoQuery
    /\ UNCHANGED <<run, pc, marker, uncleanSeen, uncleanExits, cfgDiscoveryV5,
                   udpEnabled, hasPreneg>>
    /\ UNCHANGED <<wg, genesisErr>>
    /\ UNCHANGED distVars
    /\ UNCHANGED idxVars

\* -------------------------------------------------------- Start (337-359)
\* Start registering the workers and the discovery source before it knows
\* whether setupDiscovery succeeded
StartCallsEager(discErr) ==
    IF discErr THEN << "shutdownTracker.Start", "wg.Add", "serverPool.AddSource",
                       "setupDiscovery" >>
    ELSE << "shutdownTracker.Start", "wg.Add", "serverPool.AddSource", "setupDiscovery",
            "serverPool.Start", "startBloomHandlers", "handler.start" >>

StartCalls(discErr) ==
    IF discErr THEN << "shutdownTracker.Start", "setupDiscovery" >>
    ELSE << "shutdownTracker.Start", "setupDiscovery", "serverPool.AddSource",
            "serverPool.Start", "wg.Add", "startBloomHandlers", "handler.start" >>

\* Start leaving udpEnabled as New set it
StartUdpKept(udp, disc) == udp

\* udpEnabled after the DiscV5 test in Start (343-346)
StartUdp(udp, disc) == IF udp /\ ~disc THEN FALSE ELSE udp

Start(discErr) ==
    /\ pc = "constructed"
    /\ calls' = calls \o StartCalls(discErr)
    /\ udpEnabled' = StartUdp(udpEnabled, discV5)
    /\ pc' = IF discErr THEN "startFailed" ELSE "started"
    /\ wg' = (IF Has(StartCalls(discErr), "wg.Add") THEN wg + bloomServiceThreads ELSE wg)
    /\ q' = NoQuery
    /\ UNCHANGED <<run, marker, uncleanSeen, uncleanExits, cfgDiscoveryV5,
                   discV5, hasPreneg, genesisErr>>
    /\ UNCHANGED distVars
    /\ UNCHANGED idxVars

\* --------------------------------------------------------- Stop (363-386)
\* Stop closing the databases before the indexers
StopOrderDbFirst ==
    << "close(closeCh)", "serverPool.Stop", "peers.close", "reqDist.close",
       "odr.Stop", "relay.Stop", "chainDb.Close", "lesDb.Close",
       "bloomIndexer.Close", "chtIndexer.Close", "blockchain.Stop", "handler.stop",
       "txPool.Stop", "engine.Close", "pruner.close", "eventMux.Stop",
       "shutdownTracker.Stop", "wg.Wait" >>

\* Stop forgetting to clear the shutdown marker
StopOrderNoMarker ==
    << "close(closeCh)", "serverPool.Stop", "peers.close", "reqDist.close",
       "odr.Stop", "relay.Stop", "bloomIndexer.Close", "chtIndexer.Close",
       "blockchain.Stop", "handler.stop", "txPool.Stop", "engine.Close",
       "pruner.close", "eventMux.Stop", "chainDb.Close", "lesDb.Close", "wg.Wait" >>

\* Stop clearing the shutdown marker while components are still running
StopOrderMarkerEarly ==
    << "close(closeCh)", "serverPool.Stop", "peers.close", "reqDist.close",
       "odr.Stop", "relay.Stop", "bloomIndexer.Close", "chtIndexer.Close",
       "blockchain.Stop", "handler.stop", "shutdownTracker.Stop", "txPool.Stop",
       "engine.Close", "pruner.close", "eventMux.Stop", "chainDb.Close",
       "lesDb.Close", "wg.Wait" >>

StopOrder == << "close(closeCh)", "serverPool.Stop", "peers.close", "reqDist.close",
                "odr.Stop", "relay.Stop", "bloomIndexer.Close", "chtIndexer.Close",
                "blockchain.Stop", "handler.stop", "txPool.Stop", "engine.Close",
                "pruner.close", "eventMux.Stop", "shutdownTracker.Stop",
                "chainDb.Close", "lesDb.Close", "wg.Wait" >>

\* the calls of Stop made so far in this run
StopDone == {StopOrder[i] : i \in {j \in 1..Len(StopOrder) : Has(calls, StopOrder[j])}}

StopCount == Cardinality(StopDone)

\* Stop runs one call at a time; other goroutines and a crash interleave.
StopStep ==
    /\ pc \in {"constructed", "started", "stopping"}
    /\ StopCount < Len(StopOrder)
    /\ LET c == StopOrder[StopCount + 1]
       IN  /\ c = "wg.Wait" => wg = 0
           /\ calls' = Append(calls, c)
           /\ marker' = IF c = "shutdownTracker.Stop" THEN TrackerStop(marker) ELSE marker
           /\ pc' = IF StopCount + 1 = Len(StopOrder) THEN "stopped" ELSE "stopping"
    /\ q' = NoQuery
    /\ UNCHANGED <<run, uncleanSeen, uncleanExits, cfgDiscoveryV5, udpEnabled,
                   discV5, hasPreneg>>
    /\ UNCHANGED <<wg, genesisErr>>
    /\ UNCHANGED distVars
    /\ UNCHANGED idxVars

\* A bloom worker launched by startBloomHandlers sees closeCh closed, returns
\* and signals the wait group (wg.Done). Its return is independent of the
\* server pool, so the return of a worker is taken no earlier than the call
\* that follows close(closeCh) in Stop.
WorkerExit ==
    /\ pc = "stopping"
    /\ Has(calls, "close(closeCh)")
    /\ Has(calls, "serverPool.Stop")
    /\ wg > 0
    /\ wg' = wg - 1
    /\ UNCHANGED <<run, pc, calls, marker, uncleanSeen, uncleanExits, cfgDiscoveryV5,
                   udpEnabled, discV5, hasPreneg, q, genesisErr>>
    /\ UNCHANGED distVars
    /\ UNCHANGED idxVars

\* ------------------------------------------------------- process exits
\* The marker of this run is still in chainDb.
MarkerLeft == Has(calls, "shutdownTracker.MarkStartup") /\ ~Has(calls, "shutdownTracker.Stop")

\* The process dies without (finishing) Stop.
Crash ==
    /\ pc \in {"constructed", "started", "stopping"}
    /\ pc' = "crashed"
    /\ q' = NoQuery
    /\ UNCHANGED <<run, calls, marker, uncleanSeen, uncleanExits, cfgDiscoveryV5,
                   udpEnabled, discV5, hasPreneg>>
    /\ UNCHANGED <<wg, genesisErr>>
    /\ UNCHANGED distVars
    /\ UNCHANGED idxVars

\* A new process is started over the same databases.
Restart(v5cfg) ==
    /\ pc \in {"newFailed", "startFailed", "stopped", "crashed"}
    /\ run < MaxRuns
    /\ run' = run + 1
    /\ pc' = "idle"
    /\ calls' = << >>
    /\ uncleanExits' = IF MarkerLeft THEN uncleanExits + 1 ELSE uncleanExits
    /\ uncleanSeen' = FALSE
    /\ cfgDiscoveryV5' = v5cfg
    /\ udpEnabled' = FALSE
    /\ discV5' = FALSE
    /\ hasPreneg' = FALSE
    /\ q' = NoQuery
    /\ wg' = 0
    /\ genesisErr' = "none"
    /\ UNCHANGED marker
    /\ UNCHANGED distVars
    /\ UNCHANGED idxVars

\* ------------------------------------------ vflux pre-negotiation (204-264)
\* A raw RLP value is modelled by what rlp.DecodeBytes makes of it: the
\* unsigned number it decodes to, or Undecodable when decoding fails.
Undecodable == -1

\* The "les" entry of a node record: absent (Load fails), or a list of raw values.
LesEntries ==
    {[has |-> FALSE, list |-> << >>]} \cup
    {[has |-> TRUE, list |-> l] :
        l \in {<< >>} \cup {<<v>> : v \in Undecodable..MaxVersion}
              \cup {<<MaxVersion, 0>>}}

\* enode.Node: its record's sequence number and "les" entry.
Nodes == [seq : 0..1, les : LesEntries]

\* What DiscV5.RequestENR returns: (node or nil, error).
EnrResponses ==
    {[err |-> e, nil |-> TRUE, node |-> [seq |-> 0, les |-> [has |-> FALSE, list |-> << >>]]]
        : e \in BOOLEAN} \cup
    {[err |-> FALSE, nil |-> FALSE, node |-> m] : m \in Nodes} \cup
    {[err |-> TRUE, nil |-> FALSE, node |-> [seq |-> 1, les |-> [has |-> TRUE, list |-> <<MaxVersion>>]]]}

\* vflux.CapacityQueryReply: a list of capacity values, or an item that does
\* not decode as one.
ReplyItems ==
    {[bad |-> TRUE, caps |-> << >>]} \cup
    {[bad |-> FALSE, caps |-> c] :
        c \in {<< >>} \cup {<<a>> : a \in 0..MaxCap}
              \cup {<<a, b>> : a \in 0..MaxCap, b \in {0, MaxCap}}}

\* vflux.Replies as encoded in a TalkRequest payload.
ReplyLists ==
    {<< >>} \cup {<<r>> : r \in ReplyItems}
            \cup {<<r, [bad |-> FALSE, caps |-> <<MaxCap>>]>> : r \in ReplyItems}

\* What DiscV5.TalkRequest returns: (payload, error). The payload is empty,
\* bytes that rlp.DecodeBytes rejects, or an encoded vflux.Replies. A failed
\* request carries no payload.
TalkResponses ==
    {[err |-> TRUE, kind |-> "empty", list |-> << >>]} \cup
    {[err |-> FALSE, kind |-> k, list |-> << >>] : k \in {"empty", "garbage"}} \cup
    {[err |-> FALSE, kind |-> "replies", list |-> l] : l \in ReplyLists}

NoEnr == [err |-> FALSE, nil |-> TRUE, node |-> [seq |-> 0, les |-> [has |-> FALSE, list |-> << >>]], sent |-> FALSE]

NoTalk == [err |-> FALSE, kind |-> "empty", list |-> << >>, sent |-> FALSE]

\* vflux.Replies value: nil, or a (possibly empty) list
NilReplies == [nil |-> TRUE, list |-> << >>]

\* VfluxRequest without the udpEnabled guard
VfluxRequestNoUdpCheck(udp, disc, talk) ==
    IF ~disc THEN [panic |-> TRUE, talkSent |-> FALSE, replies |-> NilReplies]
    ELSE IF talk.kind = "empty" \/ talk.kind = "garbage"
         THEN [panic |-> FALSE, talkSent |-> TRUE, replies |-> NilReplies]
    ELSE [panic |-> FALSE, talkSent |-> TRUE,
          replies |-> [nil |-> FALSE, list |-> talk.list]]

\* VfluxRequest (205-216)
VfluxRequest(udp, disc, talk) ==
    IF ~udp THEN [panic |-> FALSE, talkSent |-> FALSE, replies |-> NilReplies]
    ELSE IF ~disc THEN [panic |-> TRUE, talkSent |-> FALSE, replies |-> NilReplies]
    ELSE IF talk.kind = "empty" \/ talk.kind = "garbage"
         THEN [panic |-> FALSE, talkSent |-> TRUE, replies |-> NilReplies]
    ELSE [panic |-> FALSE, talkSent |-> TRUE,
          replies |-> [nil |-> FALSE, list |-> talk.list]]

\* the version in the "les" entry of a record (233-239)
LesVersion(n) ==
    IF ~n.les.has \/ Len(n.les.list) < 1 THEN 0
    ELSE IF n.les.list[1] = Undecodable THEN 0
    ELSE n.les.list[1]

\* vfxVersion taking the record RequestENR returned whatever its error
vfxVersionIgnoresErr(n, udp, disc, enr) ==
    IF n.seq = 0
    THEN IF ~udp
         THEN [panic |-> FALSE, enrSent |-> FALSE, persisted |-> FALSE, version |-> 0]
         ELSE IF ~disc
         THEN [panic |-> TRUE, enrSent |-> FALSE, persisted |-> FALSE, version |-> 0]
         ELSE IF ~enr.nil /\ enr.node.seq # 0
         THEN [panic |-> FALSE, enrSent |-> TRUE, persisted |-> TRUE,
               version |-> LesVersion(enr.node)]
         ELSE [panic |-> FALSE, enrSent |-> TRUE, persisted |-> FALSE, version |-> 0]
    ELSE [panic |-> FALSE, enrSent |-> FALSE, persisted |-> FALSE, version |-> LesVersion(n)]

\* vfxVersion (220-240)
vfxVersion(n, udp, disc, enr) ==
    IF n.seq = 0
    THEN IF ~udp
         THEN [panic |-> FALSE, enrSent |-> FALSE, persisted |-> FALSE, version |-> 0]
         ELSE IF ~disc
         THEN [panic |-> TRUE, enrSent |-> FALSE, persisted |-> FALSE, version |-> 0]
         ELSE IF ~enr.nil /\ ~enr.err /\ enr.node.seq # 0
         THEN [panic |-> FALSE, enrSent |-> TRUE, persisted |-> TRUE,
               version |-> LesVersion(enr.node)]
         ELSE [panic |-> FALSE, enrSent |-> TRUE, persisted |-> FALSE, version |-> 0]
    ELSE [panic |-> FALSE, enrSent |-> FALSE, persisted |-> FALSE, version |-> LesVersion(n)]

\* replies.Get(0, &cqr): fails on nil or empty replies and on an item that
\* does not decode (257)
GetFirst(replies) ==
    IF replies.nil \/ Len(replies.list) < 1 \/ replies.list[1].bad
    THEN [err |-> TRUE, cqr |-> << >>]
    ELSE [err |-> FALSE, cqr |-> replies.list[1].caps]

\* a failed Get reported as "no capacity" instead of a failed query
ReplyResultErrBusy(replies) ==
    LET g == GetFirst(replies)
    IN  IF g.err THEN 0
        ELSE IF Len(g.cqr) # 1 THEN -1
        ELSE IF g.cqr[1] > 0 THEN 1
        ELSE 0

\* capacity compared with >= 0 instead of > 0
ReplyResultGe(replies) ==
    LET g == GetFirst(replies)
    IN  IF g.err \/ Len(g.cqr) # 1 THEN -1
        ELSE IF g.cqr[1] >= 0 THEN 1
        ELSE 0

\* the value prenegQuery returns for a reply (257-263)
ReplyResult(replies) ==
    LET g == GetFirst(replies)
    IN  IF g.err \/ Len(g.cqr) # 1 THEN -1
        ELSE IF g.cqr[1] > 0 THEN 1
        ELSE 0

\* prenegQuery sending the capacity query whatever the advertised version
prenegQueryAlwaysAsks(n, udp, disc, enr, talk) ==
    LET v == vfxVersion(n, udp, disc, enr)
        r == VfluxRequest(udp, disc, talk)
    IN  [panic |-> v.panic \/ r.panic, enrSent |-> v.enrSent, persisted |-> v.persisted,
         version |-> v.version, talkSent |-> r.talkSent, replies |-> r.replies,
         result |-> ReplyResult(r.replies)]

\* prenegQuery (244-264)
prenegQuery(n, udp, disc, enr, talk) ==
    LET v == vfxVersion(n, udp, disc, enr)
        r == VfluxRequest(udp, disc, talk)
        base == [panic |-> v.panic, enrSent |-> v.enrSent, persisted |-> v.persisted,
                 version |-> v.version, talkSent |-> FALSE, replies |-> NilReplies,
                 result |-> 1]
    IN  IF v.panic THEN base
        ELSE IF v.version < 1 THEN base
        ELSE IF r.panic THEN [base EXCEPT !.panic = TRUE]
        ELSE [base EXCEPT !.talkSent = r.talkSent, !.replies = r.replies,
                          !.result = ReplyResult(r.replies)]

\* The responses a call consumed; a request that was not sent has no response.
EnrSeen(sent, enr) ==
    IF sent THEN [err |-> enr.err, nil |-> enr.nil, node |-> enr.node, sent |-> TRUE]
    ELSE NoEnr

TalkSeen(sent, talk) ==
    IF sent THEN [err |-> talk.err, kind |-> talk.kind, list |-> talk.list, sent |-> TRUE]
    ELSE NoTalk

\* the server pool is running and was given prenegQuery as its query function
PoolQueries ==
    /\ pc \in {"started", "stopping"}
    /\ hasPreneg
    /\ Has(calls, "serverPool.Start")
    /\ ~Has(calls, "serverPool.Stop")

\* the responses the environment can give to the requests a call sends
EnrFor(n) ==
    IF vfxVersion(n, udpEnabled, discV5, NoEnr).enrSent THEN EnrResponses
    ELSE {[err |-> FALSE, nil |-> TRUE, node |-> NoEnr.node]}

TalkFor(n, enr) ==
    IF prenegQuery(n, udpEnabled, discV5, enr, NoTalk).talkSent THEN TalkResponses
    ELSE {[err |-> FALSE, kind |-> "empty", list |-> << >>]}

\* The server pool calls prenegQuery for a candidate (137, 244).
PrenegQuery ==
    /\ PoolQueries
    /\ q = NoQuery
    /\ \E n \in Nodes : \E enr \in EnrFor(n) : \E talk \in TalkFor(n, enr) :
        LET r == prenegQuery(n, udpEnabled, discV5, enr, talk)
        IN  /\ q' = [op |-> "preneg", node |-> n, enr |-> EnrSeen(r.enrSent, enr),
                     talk |-> TalkSeen(r.talkSent, talk), udp |-> udpEnabled, out |-> r]
            /\ pc' = IF r.panic THEN "crashed" ELSE pc
    /\ UNCHANGED <<run, calls, marker, uncleanSeen, uncleanExits, cfgDiscoveryV5,
                   udpEnabled, discV5, hasPreneg>>
    /\ UNCHANGED <<wg, genesisErr>>
    /\ UNCHANGED distVars
    /\ UNCHANGED idxVars

\* A caller outside the server pool uses the exported VfluxRequest (205).
ExportedVflux ==
    /\ pc \in {"constructed", "started"}
    /\ q = NoQuery
    /\ \E talk \in TalkResponses :
        LET r == VfluxRequest(udpEnabled, discV5, talk)
        IN  /\ q' = [op |-> "vflux", talk |-> TalkSeen(r.talkSent, talk),
                     udp |-> udpEnabled, out |-> r]
            /\ pc' = IF r.panic THEN "crashed" ELSE pc
    /\ UNCHANGED <<run, calls, marker, uncleanSeen, uncleanExits, cfgDiscoveryV5,
                   udpEnabled, discV5, hasPreneg>>
    /\ UNCHANGED <<wg, genesisErr>>
    /\ UNCHANGED distVars
    /\ UNCHANGED idxVars

\* The call returns to its caller, which consumes the result.
QueryReturn ==
    /\ q # NoQuery
    /\ pc # "crashed"
    /\ q' = NoQuery
    /\ UNCHANGED <<run, pc, calls, marker, uncleanSeen, uncleanExits, cfgDiscoveryV5,
                   udpEnabled, discV5, hasPreneg>>
    /\ UNCHANGED <<wg, genesisErr>>
    /\ UNCHANGED distVars
    /\ UNCHANGED idxVars

\* ------------------------------- request distribution and retrieval
\* New builds the request distributor and the retrieve manager over the one
\* peer set it creates (107, 119-121, 140); Stop closes both (366-367).
Peers == 1..NumPeers

Reqs == 1..NumReqs

\* identifiers grow monotonically: the Request issued first has the least
Oldest == CHOOSE r \in Reqs : \A o \in Reqs : r <= o

\* The root a Request must verify against is fixed when it is issued.
TrustedRoot(r) == r % 2

\* the ODR validator accepting whatever a peer sends
VerifyAnything(r, root) == TRUE

\* ODR validator: a function of the response and the trusted root only
Verify(r, root) == root = TrustedRoot(r)

Load(p) == Cardinality({a \in assigned : a.peer = p})

\* the peers excluded for a Request: they timed out, were lost or sent an
\* invalid response while bound to it
Excluded(tr, r) == tr[r]

\* the peers a Request may still be sent to
Eligible(reg, tr, r) == {p \in reg : p \notin Excluded(tr, r)}

\* bestFor: eligible peers with a free slot that do not hold the Request already
BestFor(r) ==
    {p \in Eligible(registry, tried, r) :
        /\ Load(p) < PeerCap
        /\ [req |-> r, peer |-> p] \notin assigned}

\* a distributor that re-sends a Request that is still in flight
AssignableResend(r) == rstate[r] \in {"Queued", "Assigned"}

\* only a Queued Request is given to a peer
Assignable(r) == rstate[r] = "Queued"

\* Queued Requests are served in arrival order
FirstAssignable(r) ==
    /\ Assignable(r)
    /\ BestFor(r) # {}
    /\ \A o \in Reqs : o < r => ~(Assignable(o) /\ BestFor(o) # {})

\* a registry whose removal leaves the peer's assignments in flight
LostOnRemoveNone(p) == {}

\* the assignments a removal of peer p fails
LostOnRemove(p) == {a \in assigned : a.peer = p}

\* a cancellation that leaves the slot bound until the deadline
FreedOnCancelNone(r) == {}

\* the assignments a cancellation of Request r frees
FreedOnCancel(r) == {a \in assigned : a.req = r}

NoResult == [status |-> "none", peer |-> 0, stale |-> FALSE, valid |-> FALSE]

\* the peers bound to Request r now
Bound(r) == {a.peer : a \in {x \in assigned : x.req = r}}

\* the peers Request r has been sent to so far: only they answer it
EverSent(r) == Excluded(tried, r) \cup Bound(r) \cup (IF result[r].peer = 0 THEN {} ELSE {result[r].peer})

\* retrieve(request): a new Request enters the distribution pool
Retrieve ==
    /\ nextId <= NumReqs
    /\ rstate[nextId] = "Idle"
    /\ rstate' = [rstate EXCEPT ![nextId] = "Queued"]
    /\ nextId' = nextId + 1
    /\ UNCHANGED <<registry, assigned, tried, note, result, closed>>
    /\ UNCHANGED lifeVars
    /\ UNCHANGED idxVars

\* Peer Registry add(peer)
AddPeer(p) ==
    /\ ~closed
    /\ p \notin registry
    /\ registry' = registry \cup {p}
    /\ UNCHANGED <<nextId, rstate, assigned, tried, note, result, closed>>
    /\ UNCHANGED lifeVars
    /\ UNCHANGED idxVars

\* Queued -> Assigned
Assign(r, p) ==
    /\ ~closed
    /\ FirstAssignable(r)
    /\ p \in BestFor(r)
    /\ assigned' = assigned \cup {[req |-> r, peer |-> p]}
    /\ rstate' = [rstate EXCEPT ![r] = "Assigned"]
    /\ UNCHANGED <<registry, nextId, tried, note, result, closed>>
    /\ UNCHANGED lifeVars
    /\ UNCHANGED idxVars

\* the state a Request goes to once the peers in `tr` are excluded for it
AfterFailure(reg, tr, r) ==
    IF Eligible(reg, tr, r) # {} THEN "Queued" ELSE "Failed"

\* TimedOut / PeerLost / VerificationFailed for the assignments in `lost`:
\* the peer is excluded for the Request, which is re-queued or fails
FailAssignments(lost, reg, why) ==
    LET tr == [r \in Reqs |-> tried[r] \cup {a.peer : a \in {x \in lost : x.req = r}}]
        hit == {a.req : a \in lost}
    IN  /\ assigned' = assigned \ lost
        /\ tried' = tr
        /\ rstate' = [r \in Reqs |->
                        IF r \in hit /\ rstate[r] = "Assigned"
                        THEN AfterFailure(reg, tr, r) ELSE rstate[r]]
        /\ result' = [r \in Reqs |->
                        IF r \in hit /\ rstate[r] = "Assigned"
                           /\ AfterFailure(reg, tr, r) = "Failed"
                        THEN [NoResult EXCEPT !.status = "Exhausted"] ELSE result[r]]
        /\ note' = IF Oldest \in hit /\ why # "timeout" THEN note \cup {why} ELSE note

\* a response from peer p for Request r arrives and is matched by its
\* correlation identifier against the live assignments; one that matches
\* none is dropped
Respond(r, p, root) ==
    /\ p \in EverSent(r)
    /\ IF [req |-> r, peer |-> p] \in assigned
       THEN /\ IF Verify(r, root)
               THEN /\ assigned' = assigned \ {[req |-> r, peer |-> p]}
                    /\ rstate' = [rstate EXCEPT ![r] = "Done"]
                    /\ result' = [result EXCEPT ![r] =
                           [status |-> "success", peer |-> p,
                            stale |-> (p \notin registry \/ p \in Excluded(tried, r)
                                       \/ rstate[r] # "Assigned"),
                            valid |-> root = TrustedRoot(r)]]
                    /\ UNCHANGED <<tried, note>>
               ELSE FailAssignments({[req |-> r, peer |-> p]}, registry, "invalid")
       ELSE /\ note' = (IF r = Oldest THEN note \cup {"late"} ELSE note)
            /\ UNCHANGED <<assigned, rstate, result, tried>>
    /\ UNCHANGED <<registry, nextId, closed>>
    /\ UNCHANGED lifeVars
    /\ UNCHANGED idxVars

\* the deadline of an assignment expires
Timeout(r, p) ==
    /\ [req |-> r, peer |-> p] \in assigned
    /\ FailAssignments({[req |-> r, peer |-> p]}, registry, "timeout")
    /\ UNCHANGED <<registry, nextId, closed>>
    /\ UNCHANGED lifeVars
    /\ UNCHANGED idxVars

\* Peer Registry remove(peerId): fails the peer's assignments before returning
RemovePeer(p) ==
    /\ p \in registry
    /\ registry' = registry \ {p}
    /\ FailAssignments(LostOnRemove(p), registry \ {p}, "lost")
    /\ UNCHANGED <<nextId, closed>>
    /\ UNCHANGED lifeVars
    /\ UNCHANGED idxVars

\* the caller cancels retrieve
Cancel(r) ==
    /\ rstate[r] \in {"Queued", "Assigned"}
    /\ rstate' = [rstate EXCEPT ![r] = "Cancelled"]
    /\ assigned' = assigned \ FreedOnCancel(r)
    /\ result' = [result EXCEPT ![r] =
            [NoResult EXCEPT !.status = "Cancelled",
                             !.peer = IF Bound(r) = {} THEN 0 ELSE CHOOSE o \in Bound(r) : TRUE]]
    /\ UNCHANGED <<registry, nextId, tried, note, closed>>
    /\ UNCHANGED lifeVars
    /\ UNCHANGED idxVars

\* Stop: peers.close() drops every peer, reqDist.close() ends distribution
Close ==
    /\ ~closed
    /\ closed' = TRUE
    /\ registry' = {}
    /\ FailAssignments(assigned, {}, "lost")
    /\ UNCHANGED nextId
    /\ UNCHANGED lifeVars
    /\ UNCHANGED idxVars

DistNext ==
    \/ Retrieve
    \/ \E p \in Peers : AddPeer(p)
    \/ \E r \in Reqs, p \in Peers : Assign(r, p)
    \/ \E r \in Reqs, p \in Peers, root \in 0..1 : Respond(r, p, root)
    \/ \E r \in Reqs, p \in Peers : Timeout(r, p)
    \/ \E p \in Peers : RemovePeer(p)
    \/ \E r \in Reqs : Cancel(r)
    \/ Close

\* ------------------------------------------------------- chain indexers
\* New creates the CHT, bloom-trie and bloom indexers over chainDb (126,
\* 144-145) and starts them at 164-166; Stop closes them at 370-371.
Indexers == {"cht", "bloom", "bloomTrie"}

\* the indexer follows the chain head itself: <indexer>.Start(blockchain)
Started(ix) == Has(calls, ix \o "Indexer.Start")

\* the indexer is a child of the bloom indexer: it is fed the sections its
\* parent has committed (AddChildIndexer, 163-164)
Attached(ix) == ix = "bloomTrie" /\ Has(calls, "bloomIndexer.AddChildIndexer")

\* Close of an indexer also closes its children
IndexerClosed(ix) ==
    IF ix = "cht" THEN Has(calls, "chtIndexer.Close") ELSE Has(calls, "bloomIndexer.Close")

\* the sections an indexer knows it may process
Known(ix) ==
    LET own == IF Started(ix) THEN head ELSE 0
        fed == IF Attached(ix) THEN sections["bloom"] ELSE 0
    IN  IF own >= fed THEN own ELSE fed

\* the light chain confirms one more section of headers
NewHead ==
    /\ pc \in {"constructed", "started", "stopping"}
    /\ ~Has(calls, "blockchain.Stop")
    /\ head < MaxSections
    /\ head' = head + 1
    /\ UNCHANGED sections
    /\ UNCHANGED lifeVars
    /\ UNCHANGED distVars

\* an indexer commits its next Index Section
Commit(ix) ==
    /\ pc \in {"constructed", "started", "stopping"}
    /\ ~IndexerClosed(ix)
    /\ sections[ix] < Known(ix)
    /\ sections' = [sections EXCEPT ![ix] = @ + 1]
    /\ UNCHANGED head
    /\ UNCHANGED lifeVars
    /\ UNCHANGED distVars

IdxNext ==
    \/ \E dbErr \in BOOLEAN, lesDbErr \in BOOLEAN, genesis \in GenesisOutcomes,
          chainErr \in BOOLEAN, ulc \in BOOLEAN :
            New(dbErr, lesDbErr, genesis, chainErr, ulc)
    \/ StopStep
    \/ NewHead
    \/ \E ix \in Indexers : Commit(ix)

\* ------------------------------------------------------------ specifications
vars == <<lifeVars, distVars, idxVars>>

\* before New: nothing constructed, no peer, no Request
Init ==
    /\ run = 1
    /\ pc = "idle"
    /\ calls = << >>
    /\ marker = 0
    /\ uncleanSeen = FALSE
    /\ uncleanExits = 0
    /\ cfgDiscoveryV5 \in BOOLEAN
    /\ udpEnabled = FALSE
    /\ discV5 = FALSE
    /\ hasPreneg = FALSE
    /\ q = NoQuery
    /\ wg = 0
    /\ genesisErr = "none"
    /\ head = 0
    /\ sections = [ix \in Indexers |-> 0]
    /\ registry = {}
    /\ nextId = 1
    /\ rstate = [r \in Reqs |-> "Idle"]
    /\ assigned = {}
    /\ tried = [r \in Reqs |-> {}]
    /\ note = {}
    /\ result = [r \in Reqs |-> NoResult]
    /\ closed = FALSE

Next ==
    \/ \E dbErr \in BOOLEAN, lesDbErr \in BOOLEAN, genesis \in GenesisOutcomes,
          chainErr \in BOOLEAN, ulc \in BOOLEAN :
            New(dbErr, lesDbErr, genesis, chainErr, ulc)
    \/ \E v5 \in BOOLEAN : ServerStart(v5)
    \/ \E discErr \in BOOLEAN : Start(discErr)
    \/ StopStep
    \/ WorkerExit
    \/ Crash
    \/ \E v5cfg \in BOOLEAN : Restart(v5cfg)
    \/ PrenegQuery
    \/ ExportedVflux
    \/ QueryReturn

\* construction, lifecycle and pre-negotiation of one backend
Spec == Init /\ [][Next]_vars

\* a backend that New has built and Start has started (no UDP configured),
\* with an empty peer set and no Request yet
DistInit ==
    /\ run = 1
    /\ pc = "started"
    /\ calls = NewCalls(FALSE, FALSE, "ok", FALSE, FALSE).calls \o StartCalls(FALSE)
    /\ marker = 1
    /\ uncleanSeen = FALSE
    /\ uncleanExits = 0
    /\ cfgDiscoveryV5 = FALSE
    /\ udpEnabled = FALSE
    /\ discV5 = FALSE
    /\ hasPreneg = FALSE
    /\ q = NoQuery
    /\ wg = bloomServiceThreads
    /\ genesisErr = "ok"
    /\ head = 0
    /\ sections = [ix \in Indexers |-> 0]
    /\ registry = {}
    /\ nextId = 1
    /\ rstate = [r \in Reqs |-> "Idle"]
    /\ assigned = {}
    /\ tried = [r \in Reqs |-> {}]
    /\ note = {}
    /\ result = [r \in Reqs |-> NoResult]
    /\ closed = FALSE

\* request distribution and retrieval of a running backend
DistSpec == DistInit /\ [][DistNext]_vars

\* construction, the chain indexers it starts, and Stop
IdxSpec == Init /\ [][IdxNext]_vars

\* ======================================================= claims, lifecycle
InStop(c) == Has(calls, c)

AnyInStop(cs) == \E c \in cs : InStop(c)

AllInStop(cs) == \A c \in cs : InStop(c)

\* C1: Stop shuts the components down in order: the server pool is stopped
\* before the peer set and the request distributor are closed, these are
\* closed before the bloom and CHT indexers, and chainDb and lesDb are closed
\* only after both indexers (and all of the former) are closed.
C1_StopOrder ==
    /\ AnyInStop({"peers.close", "reqDist.close", "bloomIndexer.Close",
                  "chtIndexer.Close", "chainDb.Close", "lesDb.Close"})
            => InStop("serverPool.Stop")
    /\ AnyInStop({"bloomIndexer.Close", "chtIndexer.Close"})
            => AllInStop({"peers.close", "reqDist.close"})
    /\ AnyInStop({"chainDb.Close", "lesDb.Close"})
            => AllInStop({"serverPool.Stop", "peers.close", "reqDist.close",
                          "bloomIndexer.Close", "chtIndexer.Close"})

C1_Witness ==
    /\ pc = "stopped"
    /\ AllInStop({"serverPool.Start", "serverPool.Stop", "reqDist.close",
                  "chtIndexer.Close", "chainDb.Close", "lesDb.Close"})

\* C2: whenever New has returned a backend the marker of this run is in
\* chainDb; once Stop has run it is cleared again and only markers of runs
\* that ended without Stop remain; a run started after such a run finds
\* their marker at startup.
C2_Marker ==
    /\ pc \in {"constructed", "started"}
            => /\ Has(calls, "shutdownTracker.MarkStartup")
               /\ marker = uncleanExits + 1
    /\ pc = "stopped" => marker = uncleanExits
    /\ pc = "crashed" /\ ~Has(calls, "shutdownTracker.Stop") => marker = uncleanExits + 1
    /\ pc \in {"newFailed", "idle"} => marker = uncleanExits
    /\ pc \in {"constructed", "started", "stopping", "stopped"}
            => (uncleanSeen <=> uncleanExits > 0)

C2_Witness ==
    /\ run = 2
    /\ uncleanSeen
    /\ pc = "stopped"
    /\ marker = 1

\* the position of the first call c in the sequence s (0: not made)
FirstAt(s, c) ==
    LET at == {i \in 1..Len(s) : s[i] = c}
    IN  IF at = {} THEN 0 ELSE CHOOSE i \in at : \A j \in at : i <= j

\* the position of the first call c in the calls of this run (0: not made)
CallAt(c) == FirstAt(calls, c)

\* the component stops of Stop other than the marker and the databases
ComponentStops ==
    {"serverPool.Stop", "peers.close", "reqDist.close", "odr.Stop", "relay.Stop",
     "bloomIndexer.Close", "chtIndexer.Close", "blockchain.Stop", "handler.stop",
     "txPool.Stop", "engine.Close", "pruner.close", "eventMux.Stop"}

\* C11: in Stop every component stop (server pool, peer set, distributor,
\* ODR, relay, indexers, blockchain, handler, tx pool, engine, pruner, event
\* mux) precedes shutdownTracker.Stop, shutdownTracker.Stop precedes
\* chainDb.Close and lesDb.Close, and nothing is called between clearing the
\* marker and closing chainDb.
C11_MarkerLast ==
    /\ InStop("shutdownTracker.Stop") => AllInStop(ComponentStops)
    /\ AnyInStop({"chainDb.Close", "lesDb.Close"})
            => /\ InStop("shutdownTracker.Stop")
               /\ CallAt("chainDb.Close") = CallAt("shutdownTracker.Stop") + 1
    /\ \A c \in ComponentStops :
            InStop(c) /\ InStop("shutdownTracker.Stop")
                => CallAt(c) < CallAt("shutdownTracker.Stop")

\* Stop of a started backend has cleared the marker and closed chainDb, and
\* is about to close lesDb
C11_Witness ==
    /\ pc = "stopping"
    /\ Has(calls, "handler.start")
    /\ InStop("shutdownTracker.Stop")
    /\ InStop("chainDb.Close")
    /\ ~InStop("lesDb.Close")
    /\ marker = uncleanExits

\* C12: when Stop has closed chainDb or lesDb, every bloom worker that
\* Start registered in the wait group has returned (the wait-group count is
\* zero), so no worker is left that could touch the closed storage.
C12_WorkersDoneAtDbClose ==
    AnyInStop({"chainDb.Close", "lesDb.Close"}) => wg = 0

\* the calls cs were made in this order, each of them
InOrder(s, cs) ==
    \A i \in 1..Len(cs) :
        /\ FirstAt(s, cs[i]) > 0
        /\ i > 1 => FirstAt(s, cs[i - 1]) < FirstAt(s, cs[i])

\* Start has just returned
StartReturns == pc = "constructed" /\ pc' \in {"started", "startFailed"}

\* C15: when Start runs with udpEnabled set and DiscV5 uninitialized it
\* clears udpEnabled; it fails only when setupDiscovery fails, and otherwise
\* goes on to set up discovery, add the source to the server pool, start the
\* pool, the bloom handlers and the handler; once New has returned,
\* udpEnabled never changes from false to true.
C15_StartDisablesUdp ==
    [][ /\ StartReturns /\ udpEnabled /\ ~discV5 => ~udpEnabled'
        /\ StartReturns /\ pc' = "started"
                => InOrder(calls', << "setupDiscovery", "serverPool.AddSource",
                                     "serverPool.Start", "startBloomHandlers",
                                     "handler.start" >>)
        /\ StartReturns /\ pc' = "startFailed"
                => calls'[Len(calls')] = "setupDiscovery"
        /\ pc # "idle" /\ ~udpEnabled => ~udpEnabled' ]_vars

\* Start ran with UDP configured and DiscV5 uninitialized, and succeeded
C15_Witness ==
    /\ pc = "started"
    /\ cfgDiscoveryV5
    /\ hasPreneg
    /\ ~discV5
    /\ ~udpEnabled
    /\ Has(calls, "handler.start")

\* C16: when setupDiscovery fails Start returns having called none of
\* serverPool.AddSource, serverPool.Start, startBloomHandlers, handler.start
\* and with the wait-group count unchanged; when it succeeds the source is
\* added to the pool before the pool is started and the pool is started
\* before the handler, and bloomServiceThreads workers are registered.
C16_DiscoveryFailure ==
    [][ StartReturns =>
            IF pc' = "startFailed"
            THEN /\ wg' = wg
                 /\ \A c \in {"serverPool.AddSource", "serverPool.Start", "wg.Add",
                               "startBloomHandlers", "handler.start"} : ~Has(calls', c)
            ELSE /\ wg' = wg + bloomServiceThreads
                 /\ InOrder(calls', << "setupDiscovery", "serverPool.AddSource",
                                       "serverPool.Start", "handler.start" >>) ]_vars

\* Start returned the error of setupDiscovery
C16_Witness ==
    /\ pc = "startFailed"
    /\ Has(calls, "setupDiscovery")
    /\ ~Has(calls, "serverPool.Start")
    /\ wg = 0

\* ========================================== claims, construction, indexers
IndexerStarts == {"chtIndexer.Start", "bloomIndexer.AddChildIndexer", "bloomIndexer.Start"}

\* C17: New calls odr.SetIndexers before light.NewLightChain, starts no
\* indexer (chtIndexer.Start, bloomIndexer.AddChildIndexer,
\* bloomIndexer.Start) before NewLightChain has returned, and when
\* NewLightChain fails no indexer is started and none ever commits a section.
C17_IndexersAfterChain ==
    /\ Has(calls, "NewLightChain")
            => CallAt("odr.SetIndexers") \in 1..(CallAt("NewLightChain") - 1)
    /\ \A c \in IndexerStarts :
            Has(calls, c) => CallAt("NewLightChain") \in 1..(CallAt(c) - 1)
    /\ pc = "newFailed"
            => /\ \A c \in IndexerStarts : ~Has(calls, c)
               /\ \A ix \in Indexers : ~Started(ix) /\ ~Attached(ix) /\ sections[ix] = 0

\* NewLightChain failed after the indexers were set on the ODR
C17_Witness ==
    /\ pc = "newFailed"
    /\ calls[Len(calls)] = "NewLightChain"
    /\ Has(calls, "odr.SetIndexers")

\* C18: the bloom-trie indexer never has more sections than the bloom
\* indexer has committed (it does not begin section N before the upstream
\* section N is committed): it is attached as a child of the bloom indexer
\* before the bloom indexer is started, and it is never started on its own.
C18_ChildFollowsParent ==
    /\ sections["bloomTrie"] <= sections["bloom"]
    /\ sections["bloom"] <= head
    /\ ~Started("bloomTrie")
    /\ Has(calls, "bloomIndexer.Start")
            => CallAt("bloomIndexer.AddChildIndexer") \in 1..(CallAt("bloomIndexer.Start") - 1)

\* the bloom-trie indexer has caught up with the bloom indexer, which is
\* itself behind the chain
C18_Witness ==
    /\ Attached("bloomTrie")
    /\ sections["bloom"] >= 1
    /\ sections["bloomTrie"] = sections["bloom"]
    /\ head > sections["bloom"]

\* C20: when genesis setup fails with an error that is not a
\* ConfigCompatError, New returns the error right there and constructs no
\* backend; when it fails with a ConfigCompatError, New goes on and, unless
\* NewLightChain fails, rewinds the chain head and then writes the new chain
\* config after the light chain, the indexers and the pruner were created.
C20_GenesisError ==
    /\ genesisErr = "err"
            => /\ pc = "newFailed"
               /\ calls = NewPrefixGenesis
    /\ genesisErr = "compat"
            => /\ Has(calls, "newServerPeerSet")
               /\ IF pc = "newFailed"
                  THEN /\ calls[Len(calls)] = "NewLightChain"
                       /\ ~Has(calls, "blockchain.SetHead")
                       /\ ~Has(calls, "WriteChainConfig")
                  ELSE /\ InOrder(calls, << "NewLightChain", "chtIndexer.Start",
                                            "bloomIndexer.Start", "newPruner",
                                            "blockchain.SetHead", "WriteChainConfig" >>)
                       /\ InOrder(calls, << "NewBloomTrieIndexer", "blockchain.SetHead" >>)
                       /\ InOrder(calls, << "WriteChainConfig", "stack.RegisterAPIs" >>)

\* New returned a backend after a ConfigCompatError and rewound the chain
C20_Witness ==
    /\ genesisErr = "compat"
    /\ pc = "constructed"
    /\ Has(calls, "blockchain.SetHead")
    /\ calls[Len(calls)] = "shutdownTracker.MarkStartup"

\* what New does to the node stack and to chainDb once the backend is built
Registrations ==
    << "stack.RegisterAPIs", "stack.RegisterProtocols", "stack.RegisterLifecycle",
       "shutdownTracker.MarkStartup" >>

\* C21: when New returns an error it has registered neither APIs nor
\* protocols nor the lifecycle on the node stack and has pushed no startup
\* marker (the markers in chainDb are those of earlier unclean runs only);
\* these four calls are made, all of them and in this order, only in a run
\* in which New returned a backend.
C21_FailedNewLeavesNothing ==
    /\ pc = "newFailed"
            => /\ \A i \in 1..Len(Registrations) : ~Has(calls, Registrations[i])
               /\ marker = uncleanExits
               /\ ~uncleanSeen
    /\ (\E i \in 1..Len(Registrations) : Has(calls, Registrations[i]))
            => /\ pc \notin {"idle", "newFailed"}
               /\ InOrder(calls, Registrations)

\* New failed at its last error return, in a run that follows an unclean exit
C21_Witness ==
    /\ pc = "newFailed"
    /\ calls[Len(calls)] = "NewLightChain"
    /\ Has(calls, "NewShutdownTracker")
    /\ uncleanExits = 1
    /\ marker = 1

\* ===================================================== claims, negotiation
Preneg == q.op = "preneg"

\* C3: for a candidate without a usable "les" vflux entry (vfxVersion < 1)
\* prenegQuery returns 1 and calls neither VfluxRequest nor TalkRequest.
C3_Unsupported ==
    Preneg /\ ~q.out.panic /\ q.out.version < 1
        => /\ q.out.result = 1
           /\ ~q.out.talkSent
           /\ ~q.talk.sent

C3_Witness ==
    /\ Preneg
    /\ q.udp
    /\ q.node.seq = 1
    /\ q.node.les.has
    /\ q.node.les.list = <<0>>
    /\ q.out.result = 1
    /\ ~q.talk.sent

\* RequestENR was sent and came back without error with a record of
\* non-zero sequence number
EnrSuccess ==
    /\ q.udp
    /\ q.enr.sent
    /\ ~q.enr.err
    /\ ~q.enr.nil
    /\ q.enr.node.seq # 0

\* the record vfxVersion reads the "les" entry from
RecordRead == IF q.out.persisted THEN q.enr.node ELSE q.node

\* C19: for a node whose record has sequence number 0, vfxVersion returns 0
\* unless UDP is enabled and RequestENR succeeds with a record of non-zero
\* sequence number; serverPool.Persist is called exactly in that case, and
\* RequestENR is sent only for a record with sequence number 0 while UDP is
\* enabled; vfxVersion returns 0 whenever the record it reads has no "les"
\* entry or an empty one.
C19_VfxVersion ==
    Preneg /\ ~q.out.panic
        => /\ q.node.seq = 0 /\ ~EnrSuccess => q.out.version = 0
           /\ q.out.persisted <=> (q.node.seq = 0 /\ EnrSuccess)
           /\ q.out.enrSent <=> (q.node.seq = 0 /\ q.udp)
           /\ q.enr.sent = q.out.enrSent
           /\ ~RecordRead.les.has \/ Len(RecordRead.les.list) = 0 => q.out.version = 0

\* a record with sequence number 0 was refreshed by RequestENR, persisted,
\* and the refreshed record advertises negotiation
C19_Witness ==
    /\ Preneg
    /\ q.node.seq = 0
    /\ EnrSuccess
    /\ q.out.persisted
    /\ q.out.version >= 1

\* the candidate advertises negotiation and the capacity query got no reply:
\* VfluxRequest returned nil, or a reply list with nothing in it
NoReply ==
    /\ Preneg
    /\ ~q.out.panic
    /\ q.out.version >= 1
    /\ (q.out.replies.nil \/ Len(q.out.replies.list) = 0)

\* C4 as claimed: a missing reply gives the result of an Unsupported
\* candidate (1, connect directly).
C4_MissingReplyIsUnsupported == NoReply /\ q.talk.sent => q.out.result = 1

\* C4 as amended: a missing reply to the capacity query makes prenegQuery
\* return -1, which is neither Busy (0) nor the 1 of an Unsupported candidate.
C4_MissingReplyIsFailure == NoReply => q.out.result = -1

C4_Witness ==
    /\ NoReply
    /\ q.talk.sent
    /\ q.talk.err
    /\ q.out.result = -1

\* the candidate answered the capacity query with a decodable first reply
Answered ==
    /\ Preneg
    /\ ~q.out.panic
    /\ q.talk.sent
    /\ q.talk.kind = "replies"
    /\ Len(q.talk.list) >= 1
    /\ ~q.talk.list[1].bad

\* C5: a reply holding exactly one capacity value c gives 1 iff c > 0 and 0
\* otherwise; a reply whose list does not hold exactly one value gives
\* neither 1 nor 0.
C5_Capacity ==
    Answered =>
        LET c == q.talk.list[1].caps
        IN  IF Len(c) = 1
            THEN /\ (q.out.result = 1 <=> c[1] > 0)
                 /\ (q.out.result = 0 <=> c[1] = 0)
            ELSE q.out.result \notin {0, 1}

C5_Witness ==
    /\ Answered
    /\ q.talk.list[1].caps = <<0>>
    /\ q.out.result = 0

\* the capacity query could not be performed or brought nothing usable
TransportFailure ==
    /\ q.op \in {"vflux", "preneg"}
    /\ \/ ~q.udp
       \/ q.talk.sent /\ (q.talk.err \/ q.talk.kind \in {"empty", "garbage"})

\* C6: with UDP disabled, a failed TalkRequest, an empty or an undecodable
\* payload, VfluxRequest returns nil replies without a panic, and prenegQuery
\* returns one of -1, 0, 1.
C6_NoCrash ==
    TransportFailure
        => /\ ~q.out.panic
           /\ pc # "crashed"
           /\ q.out.replies.nil
           /\ (Preneg => q.out.result \in {-1, 0, 1})

C6_Witness ==
    /\ q.op = "vflux"
    /\ q.udp
    /\ q.talk.sent
    /\ q.talk.kind = "garbage"
    /\ q.out.replies.nil
    /\ pc = "started"

C14_DiscV5NonNil ==
    q.op \in {"vflux", "preneg"} => (~q.out.panic /\ (q.talk.sent \/ q.out.talkSent => discV5))

\* ==================================================== claims, distribution
Done(r) == rstate[r] = "Done"

\* C7: under every interleaving of sends, responses, timeouts and peer
\* removals a Request is bound to at most one peer at a time, and it is bound
\* to exactly one while it is Assigned and to none otherwise.
C7_OneAssignment ==
    \A r \in Reqs :
        /\ Cardinality(Bound(r)) <= 1
        /\ rstate[r] = "Assigned" <=> Bound(r) # {}

\* a Request in flight again at another peer after an earlier assignment failed
C7_Witness ==
    \E r \in Reqs :
        /\ rstate[r] = "Assigned"
        /\ Excluded(tried, r) # {}
        /\ Cardinality(Bound(r)) = 1

\* C8: retrieve returns success only with a response that verifies against
\* the trusted root; a peer whose response failed (or that timed out or was
\* lost) is never given the Request again, neither as a live assignment nor
\* as the source of the result; and a Request fails, with Exhausted, only at
\* a moment when no eligible peer remains for it.
C8_Verified ==
    [][ \A r \in Reqs :
            /\ rstate'[r] = "Done" <=> result'[r].status = "success"
            /\ result'[r].status = "success"
                    => /\ result'[r].valid
                       /\ result'[r].peer \notin Excluded(tried', r)
            /\ Bound(r)' \cap Excluded(tried', r) = {}
            /\ rstate'[r] = "Failed" <=> result'[r].status = "Exhausted"
            /\ rstate[r] # "Failed" /\ rstate'[r] = "Failed"
                    => Eligible(registry', tried', r) = {}
            /\ rstate[r] = "Assigned" /\ rstate'[r] \notin {"Assigned", "Done", "Cancelled"}
                    => rstate'[r] = (IF Eligible(registry', tried', r) # {}
                                     THEN "Queued" ELSE "Failed") ]_vars

\* a response failed verification and the Request then succeeded with a
\* valid response from a different peer
C8_Witness ==
    LET r == Oldest IN
        /\ "invalid" \in note
        /\ Done(r)
        /\ result[r].valid
        /\ Excluded(tried, r) # {}
        /\ result[r].peer \notin Excluded(tried, r)

====
